---- MODULE Spec2Model ----
(***************************************************************************)
(* State-machine model of the GitHub Actions metric exporter               *)
(* (src/aztec-github-actions-exporter/exporter.py): main, backfill_runs,   *)
(* push_metrics, the generator fetch_all_runs, parse_run_data and          *)
(* push_metric_to_victoriametrics, with the upstream run API and the       *)
(* metrics sink as the environment.                                        *)
(***************************************************************************)
EXTENDS Integers, Sequences, FiniteSets, TLC

VARIABLES
    argv,            \* sys.argv: the set of command-line flags
    backfill_count,  \* the count argument backfill_runs is called with
    paging,          \* environment: how the upstream answers page fetches
    upstream_runs,   \* environment: the list of completed runs the upstream holds
    pc,              \* position of the single thread of control
    phase,           \* "start", "backfill" or "poll": the function main is inside
    exc,             \* the exception that ended the process, "" while it runs
    gen,             \* the frame of the generator fetch_all_runs
    run,             \* the parsed run the generator has just yielded
    processed_runs,  \* push_metrics: the set of run-id strings already handled
    status_idx,      \* push_metrics: index into WORKFLOW_STATUSES
    now,             \* push_metrics: the iteration's timestamp (ms)
    count,           \* push_metrics: the total_count just fetched
    iter,            \* number of completed poll iterations
    last_push,       \* sink: the sample of the most recent POST
    bf_log,          \* history: samples POSTed by backfill_runs, in order
    poll_pushes,     \* history: duration POSTs issued by push_metrics per run id
    delivered,       \* history: run-id strings with a 2xx duration POST
    attempted,       \* history: statuses whose count fetch was issued this iteration
    count_push_failed, \* history: a count POST failed in this iteration
    call,            \* the arguments of a function that is applied on its own
    ret              \* what that function returned

vars == << argv, backfill_count, paging, upstream_runs, pc, phase, exc, gen, run,
           processed_runs, status_idx, now, count, iter, last_push, bf_log,
           poll_pushes, delivered, attempted, count_push_failed, call, ret >>

(***************************************************************************)
(* Bounds of the model.                                                    *)
(***************************************************************************)
\* run ids the upstream can return are 1..MaxRunId
MaxRunId == 4
\* the wall-clock readings handed to parse_run_data reach MaxWall half hours
MaxWall == 4
\* an upstream that answers with any page returns empty pages from page
\* MaxPages + 1 on
MaxPages == 3
\* most lines of an exposition text handed to the serialization
MaxLines == 2
\* longest page the upstream returns when it does not honour per_page
MaxPageLen == 2
\* largest count backfill_runs is called with (BACKFILL_COUNT, scaled down)
MaxCount == 2
\* the window push_metrics asks fetch_all_runs for (max_runs=100, scaled down)
PollWindow == 2
\* number of times the poll loop goes round after its first iteration
MaxIter == 1
\* largest max_runs fetch_all_runs is called with on its own
MaxRuns == 3
\* largest total_count a count fetch returns
MaxTotalCount == 1

(***************************************************************************)
(* Program constants.                                                      *)
(***************************************************************************)
POLL_INTERVAL == 300

GITHUB_MAX_PER_PAGE == 100

WORKFLOW_STATUSES ==
    << "completed", "cancelled", "failure", "success", "timed_out", "in_progress" >>

WORKFLOW_FILE == "ci3.yml"

Min(a, b) == IF a <= b THEN a ELSE b

RunIds == 1 .. MaxRunId

(***************************************************************************)
(* The upstream's raw records.  A timestamp string is modelled by its      *)
(* wall-clock seconds and its UTC-offset suffix; "" stands for a missing   *)
(* or unparsable value.                                                    *)
(***************************************************************************)
Iso(wall, suffix) == [wall |-> wall, suffix |-> suffix]

\* run 1 lasts 120 s, run 2 lasts 340 s and its updated_at is written at +01:00;
\* runs 3, 7, ... carry an updated_at 30 s before created_at, and runs 4, 8, ...
\* a created_at that fromisoformat rejects.  A commit sha is modelled by its first
\* eight characters and the rest.
RawRun(i) ==
    [ id |-> i,
      created_at |-> IF i % 4 = 0 THEN Iso(0, "") ELSE Iso(1000 + 60 * i, "Z"),
      updated_at |->
          IF i % 4 = 3 THEN Iso(1000 + 60 * i - 30, "Z")
          ELSE IF i % 2 = 0
          THEN Iso(1000 + 60 * i + 3600 + 120 + 220 * (i - 1), "+01:00")
          ELSE Iso(1000 + 60 * i + 120 + 220 * (i - 1), "Z"),
      head_branch |-> "gh-readonly-queue/next/pr-" \o ToString(i),
      head_sha |-> [ first8 |-> "c0ffee0" \o ToString(i % 10), rest |-> "deadbeef" ] ]

RawRuns == { RawRun(i) : i \in RunIds }

\* the list of completed runs the upstream holds after m runs, newest first
Upstream(m) == [k \in 1 .. m |-> RawRun(m + 1 - k)]

\* pages of an upstream that does not honour per_page
Pages == UNION { [1 .. n -> RawRuns] : n \in 0 .. MaxPageLen }

\* the page an upstream serving consecutive per_page slices of a fixed list returns
Slice(list, per_page, page) ==
    SubSeq(list, (page - 1) * per_page + 1, Min(page * per_page, Len(list)))

\* HTTP answers of the upstream and of the sink
Responses == { "2xx", "non2xx", "transport_error" }

(***************************************************************************)
(* parse_run_data                                                          *)
(***************************************************************************)
\* str.replace("Z", "+00:00")
ReplaceZ(s) == IF s.suffix = "Z" THEN [s EXCEPT !.suffix = "+00:00"] ELSE s

IsoValid(s) == s.suffix \in { "+00:00", "+01:00" }

\* faulty variant: the offset of a timestamp is ignored
UtcOffset_ignored(s) == 0

UtcOffset(s) == IF s.suffix = "+01:00" THEN 3600 ELSE 0

\* datetime.fromisoformat: an aware datetime, as seconds since the epoch
FromIsoFormat(s) == s.wall - UtcOffset(s)

\* parse_run_data raises (ValueError) on a timestamp fromisoformat rejects
ParseRaises(raw) ==
    \/ ~IsoValid(ReplaceZ(raw.created_at))
    \/ ~IsoValid(ReplaceZ(raw.updated_at))

\* x / 60, kept exact: whole minutes and the remaining sixtieths of a minute
Div60(x) == [ whole |-> x \div 60, sixtieths |-> x % 60 ]

parse_run_data(raw) ==
    LET created_at == FromIsoFormat(ReplaceZ(raw.created_at))
        updated_at == FromIsoFormat(ReplaceZ(raw.updated_at))
    IN  [ id |-> raw.id,
          created_at |-> created_at,
          updated_at |-> updated_at,
          duration_seconds |-> updated_at - created_at,
          duration_minutes |-> Div60(updated_at - created_at),
          head_branch |-> raw.head_branch,
          head_sha |-> raw.head_sha.first8 ]

NoRun == [ id |-> 0, created_at |-> 0, updated_at |-> 0, duration_seconds |-> 0,
           duration_minutes |-> [ whole |-> 0, sixtieths |-> 0 ],
           head_branch |-> "", head_sha |-> "" ]

\* str(run["id"])
Str(i) == ToString(i)

\* int(dt.timestamp() * 1000)
TimestampMs(dt) == dt * 1000

(***************************************************************************)
(* Samples and the sink                                                    *)
(***************************************************************************)
\* a dict is a sequence of <<key, value>> pairs (insertion order); {} and None are << >>
Sample(timestamp, metric_name, metric_value, labels, exemplar) ==
    [ timestamp |-> timestamp, metric_name |-> metric_name,
      metric_value |-> metric_value, labels |-> labels, exemplar |-> exemplar ]

NoSample == Sample(0, "", 0, << >>, << >>)

\* faulty variant: without the except clause the RequestException leaves the function
push_raises_on_failure(resp) == IF resp = "2xx" THEN "True" ELSE "raise"

\* the result of push_metric_to_victoriametrics for the sink's answer: the value it
\* returns ("raise" would be an exception leaving the function); raise_for_status
\* and the transport errors of requests.post are RequestExceptions, caught
push_metric_to_victoriametrics(resp) == IF resp = "2xx" THEN "True" ELSE "False"

\* A text is the sequence of its lines (split and join on the newline), a line the
\* sequence of the pieces it is put together from; a "#" that starts a line is a
\* piece of its own and white space is made of " " pieces.
\* line.startswith('#')
StartsWithHash(line) == Len(line) > 0 /\ line[1] = "#"

\* not line.strip()
IsBlank(line) == \A k \in DOMAIN line : line[k] = " "

\* ','.join([f'{k}="{v}"' for k, v in exemplar.items()])
RECURSIVE ExemplarStr(_)
ExemplarStr(exemplar) ==
    IF exemplar = << >> THEN << >>
    ELSE << exemplar[1][1], "=\"", exemplar[1][2], "\"" >>
         \o (IF Len(exemplar) = 1 THEN << >> ELSE << "," >> \o ExemplarStr(Tail(exemplar)))

\* faulty variant: the timestamp is appended to comment and blank lines too
AnnotateLine_every_line(line, timestamp, exemplar) ==
    line \o << " ", ToString(timestamp) >>
         \o (IF exemplar # << >> THEN << " # " >> \o ExemplarStr(exemplar) ELSE << >>)

\* the body of the loop over the lines: what is appended to annotated_lines
AnnotateLine(line, timestamp, exemplar) ==
    IF StartsWithHash(line) \/ IsBlank(line)
    THEN line
    ELSE line \o << " ", ToString(timestamp) >>
              \o (IF exemplar # << >> THEN << " # " >> \o ExemplarStr(exemplar)
                  ELSE << >>)

\* annotated_lines after the loop over the lines
RECURSIVE Annotate(_, _, _)
Annotate(lines, timestamp, exemplar) ==
    IF lines = << >> THEN << >>
    ELSE << AnnotateLine(Head(lines), timestamp, exemplar) >>
         \o Annotate(Tail(lines), timestamp, exemplar)

\* the count sample push_metrics builds for one status
CountSample(t, status, total) ==
    Sample(t, "workflow_runs_count", total,
           << <<"status", status>>, <<"workflow_file", WORKFLOW_FILE>> >>, << >>)

\* faulty variant: the sample is stamped with the run's completion time
BackfillSample_updated_at(r) ==
    Sample(TimestampMs(r.updated_at), "workflow_runs_duration_seconds",
           r.duration_seconds, << <<"workflow_file", WORKFLOW_FILE>> >>,
           << <<"run_id", Str(r.id)>> >>)

\* the duration sample backfill_runs builds for one yielded run
BackfillSample(r) ==
    Sample(TimestampMs(r.created_at), "workflow_runs_duration_seconds",
           r.duration_seconds, << <<"workflow_file", WORKFLOW_FILE>> >>,
           << <<"run_id", Str(r.id)>> >>)

\* faulty variant: the branch of the run is added as a label
PollSample_branch_label(r) ==
    Sample(TimestampMs(r.created_at), "workflow_runs_duration_seconds",
           r.duration_seconds,
           << <<"workflow_file", WORKFLOW_FILE>>, <<"head_branch", r.head_branch>> >>,
           << <<"run_id", Str(r.id)>> >>)

\* the duration sample push_metrics builds for one yielded run
PollSample(r) ==
    Sample(TimestampMs(r.created_at), "workflow_runs_duration_seconds",
           r.duration_seconds, << <<"workflow_file", WORKFLOW_FILE>> >>,
           << <<"run_id", Str(r.id)>> >>)

(***************************************************************************)
(* The generator fetch_all_runs                                            *)
(***************************************************************************)
NoGen == [ max_runs |-> 0, page |-> 0, remaining_runs |-> 0, per_page |-> 0,
           runs |-> << >>, i |-> 0, yielded |-> 0, requests |-> 0 ]

\* faulty variant: per_page is not capped
PerPage_uncapped(max_runs) == max_runs

\* per_page = min(100, max_runs)
PerPage(max_runs) == Min(GITHUB_MAX_PER_PAGE, max_runs)

\* the frame when the body starts; yielded and requests are history
GenInit(max_runs) ==
    [ max_runs |-> max_runs, page |-> 1, remaining_runs |-> max_runs,
      per_page |-> PerPage(max_runs), runs |-> << >>, i |-> 0,
      yielded |-> 0, requests |-> 0 ]

\* while remaining_runs:
WhileCond(remaining_runs) == remaining_runs # 0

\* faulty variant: the for loop over the page has no break
BreakCond_never(remaining_runs) == FALSE

\* if remaining_runs <= 0: break
BreakCond(remaining_runs) == remaining_runs <= 0

\* faulty variant: remaining_runs is not decremented
Resume_no_decrement(g) == [g EXCEPT !.i = @ + 1]

\* the generator resumes after a yield: remaining_runs -= 1, next item of the page
Resume(g) == [g EXCEPT !.remaining_runs = @ - 1, !.i = @ + 1]

\* the generator returns: its page buffer goes with the frame, the history stays
Finished(g) == [g EXCEPT !.runs = << >>, !.i = 0]

\* where the consumer's for loop continues when the generator is exhausted
AfterLoop ==
    IF phase = "backfill" THEN "bf_return"
    ELSE IF phase = "poll" THEN "sleep"
    ELSE "done"

\* the loop body that receives a yielded run
LoopBody ==
    IF phase = "backfill" THEN "bf_push"
    ELSE IF phase = "poll" THEN "poll_check"
    ELSE "consume"

\* what the upstream may answer the generator's next page fetch with: the list it
\* holds by then and the page it serves.  A "static" upstream serves consecutive
\* per_page slices of a fixed list, a "growing" one may have completed more runs
\* since the last fetch, an "arbitrary" one returns any page, and an empty one
\* after finitely many.
FetchAnswers ==
    IF paging = "arbitrary"
    THEN { [list |-> upstream_runs, runs |-> p] :
             p \in IF gen.page > MaxPages THEN { << >> } ELSE Pages }
    ELSE IF paging = "growing"
    THEN { [list |-> Upstream(m), runs |-> Slice(Upstream(m), gen.per_page, gen.page)] :
             m \in Len(upstream_runs) .. MaxRunId }
    ELSE { [list |-> upstream_runs,
            runs |-> Slice(upstream_runs, gen.per_page, gen.page)] }

\* faulty variant: the ledger is not consulted
Seen_never(run_id, ledger) == FALSE

\* run_id in processed_runs
Seen(run_id, ledger) == run_id \in ledger

\* faulty variant: main returns after the backfill
MainAfterBackfill_exit == "exit"

\* what follows backfill_runs in main: push_metrics() is not in an else branch
MainAfterBackfill == "push_metrics"

env == << argv, backfill_count, paging, upstream_runs, call, ret >>
poll_locals == << processed_runs, status_idx, now, count >>
poll_hist == << poll_pushes, attempted, count_push_failed >>

Crash(e) == pc' = "crashed" /\ exc' = e

(***************************************************************************)
(* Initial state: the process has been started, main has not run yet.      *)
(***************************************************************************)
Init ==
    /\ argv \in { {}, {"--backfill"} }
    /\ backfill_count \in IF "--backfill" \in argv THEN 0 .. MaxCount ELSE { MaxCount }
    /\ paging \in { "static", "growing" }
    /\ upstream_runs \in { Upstream(m) : m \in 0 .. MaxRunId }
    /\ pc = "main"
    /\ phase = "start"
    /\ exc = ""
    /\ gen = NoGen
    /\ run = NoRun
    /\ processed_runs = {}
    /\ status_idx = 0
    /\ now = 0
    /\ count = 0
    /\ iter = 0
    /\ last_push = NoSample
    /\ bf_log = << >>
    /\ poll_pushes = [i \in RunIds |-> 0]
    /\ delivered = {}
    /\ attempted = {}
    /\ count_push_failed = FALSE
    /\ call = << >>
    /\ ret = << >>

(***************************************************************************)
(* main                                                                    *)
(***************************************************************************)
\* if "--backfill" in sys.argv: backfill_runs(count=BACKFILL_COUNT)
MainBackfill ==
    /\ pc = "main"
    /\ "--backfill" \in argv
    /\ phase' = "backfill"
    /\ gen' = GenInit(backfill_count)
    /\ pc' = "gen_while"
    /\ UNCHANGED << env, exc, run, poll_locals, iter, last_push, bf_log, delivered,
                    poll_hist >>

\* no --backfill: push_metrics()
MainPoll ==
    /\ pc = "main"
    /\ "--backfill" \notin argv
    /\ pc' = "push_metrics"
    /\ UNCHANGED << env, phase, exc, gen, run, poll_locals, iter, last_push, bf_log,
                    delivered, poll_hist >>

\* backfill_runs has returned: main goes on to its next statement
BackfillReturn ==
    /\ pc = "bf_return"
    /\ pc' = MainAfterBackfill
    /\ UNCHANGED << env, phase, exc, gen, run, poll_locals, iter, last_push, bf_log,
                    delivered, poll_hist >>

(***************************************************************************)
(* fetch_all_runs                                                          *)
(***************************************************************************)
\* the while condition is false: the generator is exhausted
GenExhausted ==
    /\ pc = "gen_while"
    /\ ~WhileCond(gen.remaining_runs)
    /\ gen' = Finished(gen)
    /\ pc' = AfterLoop
    /\ UNCHANGED << env, phase, exc, run, poll_locals, iter, last_push, bf_log,
                    delivered, poll_hist >>

\* faulty variant: an empty page does not end the paging
NotRuns_never(runs) == FALSE

\* if not runs: break
NotRuns(runs) == runs = << >>

\* get_merge_queue_runs answers 2xx with a page
GenFetch ==
    /\ pc = "gen_while"
    /\ WhileCond(gen.remaining_runs)
    /\ \E answer \in FetchAnswers :
          LET runs == answer.runs IN
          /\ upstream_runs' = answer.list
          /\ gen' = IF NotRuns(runs)
                    THEN Finished([gen EXCEPT !.requests = @ + 1])
                    ELSE [gen EXCEPT !.runs = runs, !.i = 1, !.requests = @ + 1]
          /\ pc' = IF NotRuns(runs) THEN AfterLoop ELSE "gen_for"
    /\ UNCHANGED << argv, backfill_count, paging, call, ret, phase, exc, run, poll_locals, iter, last_push, bf_log,
                    delivered, poll_hist >>

\* faulty variant: the failed fetch is caught and logged, and ends the paging like
\* an empty page
GenFetchError_caught ==
    /\ pc = "gen_while"
    /\ WhileCond(gen.remaining_runs)
    /\ \E resp \in Responses \ { "2xx" } :
          exc' = IF resp = "non2xx" THEN "HTTPError" ELSE "ConnectionError"
    /\ gen' = Finished([gen EXCEPT !.requests = @ + 1])
    /\ pc' = AfterLoop
    /\ UNCHANGED << env, phase, run, poll_locals, iter, last_push, bf_log,
                    delivered, poll_hist >>

\* get_merge_queue_runs raises: raise_for_status on a non-2xx answer, or the
\* transport error of requests.get; nothing in the call chain catches it
GenFetchError ==
    /\ pc = "gen_while"
    /\ WhileCond(gen.remaining_runs)
    /\ \E resp \in Responses \ { "2xx" } :
          Crash(IF resp = "non2xx" THEN "HTTPError" ELSE "ConnectionError")
    /\ gen' = [gen EXCEPT !.requests = @ + 1]
    /\ UNCHANGED << env, phase, run, poll_locals, iter, last_push, bf_log,
                    delivered, poll_hist >>

\* the for loop over the page ends (page consumed, or break): page += 1
GenNextPage ==
    /\ pc = "gen_for"
    /\ \/ gen.i > Len(gen.runs)
       \/ BreakCond(gen.remaining_runs)
    /\ gen' = [gen EXCEPT !.page = @ + 1]
    /\ pc' = "gen_while"
    /\ UNCHANGED << env, phase, exc, run, poll_locals, iter, last_push, bf_log,
                    delivered, poll_hist >>

\* yield parse_run_data(run)
GenYield ==
    /\ pc = "gen_for"
    /\ gen.i <= Len(gen.runs)
    /\ ~BreakCond(gen.remaining_runs)
    /\ ~ParseRaises(gen.runs[gen.i])
    /\ run' = parse_run_data(gen.runs[gen.i])
    /\ gen' = [gen EXCEPT !.yielded = @ + 1]
    /\ pc' = LoopBody
    /\ UNCHANGED << env, phase, exc, poll_locals, iter, last_push, bf_log,
                    delivered, poll_hist >>

\* parse_run_data raises inside the generator
GenParseError ==
    /\ pc = "gen_for"
    /\ gen.i <= Len(gen.runs)
    /\ ~BreakCond(gen.remaining_runs)
    /\ ParseRaises(gen.runs[gen.i])
    /\ Crash("ValueError")
    /\ UNCHANGED << env, phase, gen, run, poll_locals, iter, last_push, bf_log,
                    delivered, poll_hist >>

(***************************************************************************)
(* backfill_runs                                                           *)
(***************************************************************************)
\* the loop body: build the sample and push it; the result is not looked at
BackfillPush ==
    /\ pc = "bf_push"
    /\ \E resp \in Responses :
          LET result == push_metric_to_victoriametrics(resp) IN
          /\ delivered' = IF resp = "2xx" THEN delivered \cup { Str(run.id) }
                          ELSE delivered
          /\ IF result = "raise"
             THEN Crash("RequestException") /\ UNCHANGED gen
             ELSE pc' = "gen_for" /\ gen' = Resume(gen) /\ UNCHANGED exc
    /\ last_push' = BackfillSample(run)
    /\ bf_log' = Append(bf_log, BackfillSample(run))
    /\ UNCHANGED << env, phase, run, poll_locals, iter, poll_hist >>

(***************************************************************************)
(* push_metrics                                                            *)
(***************************************************************************)
\* processed_runs = set[str]()
PushMetricsStart ==
    /\ pc = "push_metrics"
    /\ phase' = "poll"
    /\ processed_runs' = {}
    /\ pc' = "loop_top"
    /\ UNCHANGED << env, exc, gen, run, status_idx, now, count, iter, last_push,
                    bf_log, delivered, poll_hist >>

\* faulty variant: the ledger is created anew in every iteration
LoopTop_fresh_ledger ==
    /\ pc = "loop_top"
    /\ now' = iter * POLL_INTERVAL * 1000
    /\ status_idx' = 1
    /\ attempted' = {}
    /\ count_push_failed' = FALSE
    /\ processed_runs' = {}
    /\ pc' = "count_fetch"
    /\ UNCHANGED << env, phase, exc, gen, run, count, iter, last_push,
                    bf_log, delivered, poll_pushes >>

\* while True: now = int(time.time() * 1000); the for loop over the statuses starts.
\* Time is measured from the first iteration and advances by the sleep.
LoopTop ==
    /\ pc = "loop_top"
    /\ now' = iter * POLL_INTERVAL * 1000
    /\ status_idx' = 1
    /\ attempted' = {}
    /\ count_push_failed' = FALSE
    /\ pc' = "count_fetch"
    /\ UNCHANGED << env, phase, exc, gen, run, processed_runs, count, iter, last_push,
                    bf_log, delivered, poll_pushes >>

\* count = get_merge_queue_runs_count_by_status(status=status), answered 2xx
CountFetch ==
    /\ pc = "count_fetch"
    /\ attempted' = attempted \cup { WORKFLOW_STATUSES[status_idx] }
    /\ count' \in 0 .. MaxTotalCount
    /\ pc' = "count_push"
    /\ UNCHANGED << env, phase, exc, gen, run, processed_runs, status_idx, now, iter,
                    last_push, bf_log, delivered, poll_pushes, count_push_failed >>

\* the count fetch raises (raise_for_status, or the transport error of requests.get);
\* push_metrics has no handler, the exception leaves main
CountFetchError ==
    /\ pc = "count_fetch"
    /\ attempted' = attempted \cup { WORKFLOW_STATUSES[status_idx] }
    /\ \E resp \in Responses \ { "2xx" } :
          Crash(IF resp = "non2xx" THEN "HTTPError" ELSE "ConnectionError")
    /\ UNCHANGED << env, phase, gen, run, poll_locals, iter, last_push, bf_log,
                    delivered, poll_pushes, count_push_failed >>

\* push_metric_to_victoriametrics(now, "workflow_runs_count", count, labels=labels);
\* then the next status, or after the last one the for loop over fetch_all_runs(100)
CountPush ==
    /\ pc = "count_push"
    /\ last_push' = CountSample(now, WORKFLOW_STATUSES[status_idx], count)
    /\ \E resp \in Responses :
          LET result == push_metric_to_victoriametrics(resp) IN
          /\ count_push_failed' = (count_push_failed \/ resp # "2xx")
          /\ IF result = "raise"
             THEN Crash("RequestException") /\ UNCHANGED << status_idx, gen >>
             ELSE /\ UNCHANGED exc
                  /\ IF status_idx < Len(WORKFLOW_STATUSES)
                     THEN /\ status_idx' = status_idx + 1
                          /\ pc' = "count_fetch"
                          /\ UNCHANGED gen
                     ELSE /\ gen' = GenInit(PollWindow)
                          /\ pc' = "gen_while"
                          /\ UNCHANGED status_idx
    /\ UNCHANGED << env, phase, run, processed_runs, now, count, iter, bf_log,
                    delivered, poll_pushes, attempted >>

\* if run_id in processed_runs: continue
PollSkip ==
    /\ pc = "poll_check"
    /\ Seen(Str(run.id), processed_runs)
    /\ gen' = Resume(gen)
    /\ pc' = "gen_for"
    /\ UNCHANGED << env, phase, exc, run, poll_locals, iter, last_push, bf_log,
                    delivered, poll_hist >>

\* processed_runs.add(run_id)
PollMark ==
    /\ pc = "poll_check"
    /\ ~Seen(Str(run.id), processed_runs)
    /\ processed_runs' = processed_runs \cup { Str(run.id) }
    /\ pc' = "poll_push"
    /\ UNCHANGED << env, phase, exc, gen, run, status_idx, now, count, iter,
                    last_push, bf_log, delivered, poll_hist >>

\* push_metric_to_victoriametrics(timestamp, "workflow_runs_duration_seconds", ...);
\* the result is not looked at
PollPush ==
    /\ pc = "poll_push"
    /\ last_push' = PollSample(run)
    /\ poll_pushes' = [poll_pushes EXCEPT ![run.id] = @ + 1]
    /\ \E resp \in Responses :
          LET result == push_metric_to_victoriametrics(resp) IN
          /\ delivered' = IF resp = "2xx" THEN delivered \cup { Str(run.id) }
                          ELSE delivered
          /\ IF result = "raise"
             THEN Crash("RequestException") /\ UNCHANGED gen
             ELSE pc' = "gen_for" /\ gen' = Resume(gen) /\ UNCHANGED exc
    /\ UNCHANGED << env, phase, run, poll_locals, iter, bf_log, attempted,
                    count_push_failed >>

\* time.sleep(POLL_INTERVAL), then the next iteration
Sleep ==
    /\ pc = "sleep"
    /\ iter < MaxIter
    /\ iter' = iter + 1
    /\ pc' = "loop_top"
    /\ UNCHANGED << env, phase, exc, gen, run, poll_locals, last_push, bf_log,
                    delivered, poll_hist >>

Next ==
    \/ MainBackfill
    \/ MainPoll
    \/ BackfillReturn
    \/ GenExhausted
    \/ GenFetch
    \/ GenFetchError
    \/ GenNextPage
    \/ GenYield
    \/ GenParseError
    \/ BackfillPush
    \/ PushMetricsStart
    \/ LoopTop
    \/ CountFetch
    \/ CountFetchError
    \/ CountPush
    \/ PollSkip
    \/ PollMark
    \/ PollPush
    \/ Sleep

Spec == Init /\ [][Next]_vars

(***************************************************************************)
(* fetch_all_runs on its own: the generator is called with any max_runs    *)
(* and drained by a for loop with an empty body, against an upstream that  *)
(* may answer a page fetch with any page.                                  *)
(***************************************************************************)
\* a max_runs above the cap of per_page
AboveCap == GITHUB_MAX_PER_PAGE + 1

\* fetch_all_runs(max_runs) is called with one of the given values
GenCalled(values) ==
    /\ argv = {}
    /\ backfill_count = 0
    /\ paging = "arbitrary"
    /\ upstream_runs = << >>
    /\ pc = "gen_while"
    /\ phase = "generator"
    /\ exc = ""
    /\ gen \in { GenInit(n) : n \in values }
    /\ run = NoRun
    /\ processed_runs = {}
    /\ status_idx = 0
    /\ now = 0
    /\ count = 0
    /\ iter = 0
    /\ last_push = NoSample
    /\ bf_log = << >>
    /\ poll_pushes = [i \in RunIds |-> 0]
    /\ delivered = {}
    /\ attempted = {}
    /\ count_push_failed = FALSE
    /\ call = << >>
    /\ ret = << >>

InitGen == GenCalled((0 .. MaxRuns) \cup { AboveCap })

\* the consumer takes the yielded run and asks for the next one
Consume ==
    /\ pc = "consume"
    /\ gen' = Resume(gen)
    /\ pc' = "gen_for"
    /\ UNCHANGED << env, phase, exc, run, poll_locals, iter, last_push, bf_log,
                    delivered, poll_hist >>

\* the consumer leaves its loop with the yielded run in hand: the generator stays
\* suspended at its yield and is never resumed
ConsumerStops ==
    /\ pc = "consume"
    /\ pc' = "stopped"
    /\ UNCHANGED << env, phase, exc, gen, run, poll_locals, iter, last_push, bf_log,
                    delivered, poll_hist >>

NextGen ==
    \/ GenExhausted
    \/ GenFetch
    \/ GenFetchError
    \/ GenNextPage
    \/ GenYield
    \/ GenParseError
    \/ Consume
    \/ ConsumerStops

SpecGen == InitGen /\ [][NextGen]_vars

\* fetch_all_runs called with any integer, negative ones included; every step
\* that can be taken is taken eventually
InitGenInt == GenCalled((-1 .. MaxRuns) \cup { AboveCap })

FairSpecGen == InitGenInt /\ [][NextGen]_vars /\ WF_vars(NextGen)

(***************************************************************************)
(* Properties                                                              *)
(***************************************************************************)
Statuses == { WORKFLOW_STATUSES[k] : k \in 1 .. Len(WORKFLOW_STATUSES) }

\* number of duration samples backfill_runs has POSTed with exemplar run_id str(i)
BackfillPushes(i) ==
    Cardinality({ k \in 1 .. Len(bf_log) : bf_log[k].exemplar = << <<"run_id", Str(i)>> >> })

\* C1: in the poll loop at most one duration push is issued per run id, however
\* often the id re-appears in the fetched window, and outside the two statements
\* between the ledger test and the push the ids pushed are exactly the ids in
\* processed_runs
C1_OnePollPushPerRun ==
    \A i \in RunIds :
        /\ poll_pushes[i] <= 1
        /\ pc # "poll_push" => (poll_pushes[i] = 1 <=> Str(i) \in processed_runs)

\* a run pushed in an earlier iteration is yielded again and found in the ledger
C1_Witness ==
    /\ pc = "poll_check"
    /\ iter >= 1
    /\ Str(run.id) \in processed_runs
    /\ poll_pushes[run.id] = 1

\* C2: within one process a duration sample is emitted at most once per run id,
\* counting the pushes of backfill_runs and of push_metrics together (stated for
\* an upstream whose list does not change, where no page repeats a run)
C2_NoReEmission ==
    paging = "static" =>
        \A i \in RunIds : BackfillPushes(i) + poll_pushes[i] <= 1

\* C3: a failed duration push does not drop the run: when an iteration is over,
\* every run the ledger holds (and so will never push again) has had a duration
\* push answered 2xx
C3_FailedPushNotDropped ==
    \A i \in RunIds :
        (pc = "sleep" /\ Str(i) \in processed_runs) => Str(i) \in delivered

\* C4: a failed upstream fetch in a poll iteration does not end the process
C4_FetchFailureSurvived ==
    ~(phase = "poll" /\ pc = "crashed" /\ exc \in { "HTTPError", "ConnectionError" })

\* C5: once a poll iteration has left its loop over the statuses, whether to go on
\* or because of a failure, a count fetch has been attempted for each of the six
C5_AllSixAttempted ==
    (phase = "poll" /\ pc \notin { "loop_top", "count_fetch", "count_push" })
        => attempted = Statuses

\* C6: push_metric_to_victoriametrics never raises for a sink failure, and a count
\* push, whatever the sink answers, is followed by the count fetch of the next
\* status, or after the last status by the fetch of the completed runs
C6_PushFailureContained ==
    /\ [](exc # "RequestException")
    /\ [][pc = "count_push" =>
            /\ exc' = ""
            /\ IF status_idx < Len(WORKFLOW_STATUSES)
               THEN pc' = "count_fetch" /\ status_idx' = status_idx + 1
               ELSE pc' = "gen_while"]_vars

\* an iteration in which a count push failed has reached the sleep
C6_Witness ==
    /\ pc = "sleep"
    /\ count_push_failed
    /\ exc = ""

\* C7: fetch_all_runs yields at most max_runs items
C7_AtMostMaxRuns == gen.yielded <= gen.max_runs

\* max_runs items have been yielded and the page, longer than per_page, has more
C7_Witness ==
    /\ pc = "gen_for"
    /\ gen.max_runs > 0
    /\ gen.yielded = gen.max_runs
    /\ gen.i <= Len(gen.runs)
    /\ Len(gen.runs) > gen.per_page

\* C8: a fetch of page k+1 is issued only when page k held at least per_page items
C8_NoFetchAfterShortPage ==
    [][(gen'.requests = gen.requests + 1 /\ gen.page > 1)
          => Len(gen.runs) >= gen.per_page]_vars

\* C9 as claimed: started with --backfill, the process never enters the poll loop
\* and issues no count fetch
C9_BackfillOneShot ==
    "--backfill" \in argv => (phase # "poll" /\ attempted = {})

\* C9 amended: when backfill_runs returns, main goes on to push_metrics; the
\* process does not exit
C9_BackfillThenPoll ==
    /\ [](pc # "exit")
    /\ [][pc = "bf_return" => pc' = "push_metrics"]_vars

\* started with --backfill, the backfill has pushed and a count fetch has been issued
C9_Witness ==
    /\ "--backfill" \in argv
    /\ Len(bf_log) > 0
    /\ pc = "count_push"

\* seconds since the epoch of a raw timestamp written with Z or an offset
EpochSeconds(ts) == ts.wall - (IF ts.suffix = "+01:00" THEN 3600 ELSE 0)

\* the duration sample the claim expects for a raw run
ExpectedSample(raw) ==
    [ timestamp |-> EpochSeconds(raw.created_at) * 1000,
      metric_name |-> "workflow_runs_duration_seconds",
      metric_value |-> EpochSeconds(raw.updated_at) - EpochSeconds(raw.created_at),
      labels |-> << <<"workflow_file", "ci3.yml">> >>,
      exemplar |-> << <<"run_id", ToString(raw.id)>> >> ]

\* C10: against an upstream holding a fixed list of M runs, backfill_runs(count=N)
\* has issued, when it returns, exactly min(N, M) duration pushes, one per run in
\* fetch order, with timestamp created_at in epoch milliseconds, value
\* duration_seconds and exemplar run_id the run's id, whatever the sink answered
C10_BackfillPushes ==
    (pc = "bf_return" /\ paging = "static") =>
        bf_log = [ k \in 1 .. Min(backfill_count, Len(upstream_runs)) |->
                     ExpectedSample(upstream_runs[k]) ]

\* a backfill of two runs has returned and the push for the first run had failed
C10_Witness ==
    /\ pc = "bf_return"
    /\ paging = "static"
    /\ Len(bf_log) = 2
    /\ Len(upstream_runs) > 2
    /\ Str(upstream_runs[1].id) \notin delivered
\* C11: an upstream error during the backfill leaves backfill_runs and main
\* uncaught: the process has ended, and an ended process takes no further step
\* (no page fetch, no push, no poll loop)
C11_BackfillErrorHalts ==
    /\ []((phase = "backfill" /\ exc # "") => pc = "crashed")
    /\ [][pc # "crashed"]_vars

\* the fetch of a second page failed after the backfill had pushed a sample
C11_Witness ==
    /\ phase = "backfill"
    /\ pc = "crashed"
    /\ exc = "HTTPError"
    /\ gen.requests = 2
    /\ Len(bf_log) = 1
\* C12: a malformed raw record is skipped: parse_run_data's rejection never ends
\* the process, and no duration sample with a negative value is pushed
C12_MalformedSkipped ==
    /\ exc # "ValueError"
    /\ last_push.metric_name = "workflow_runs_duration_seconds"
          => last_push.metric_value >= 0
\* the keys and the values of a dict
Keys(d) == { d[k][1] : k \in DOMAIN d }
Values(d) == { d[k][2] : k \in DOMAIN d }

\* the values that identify one run: its id, its branch, its short sha
HighCardinality ==
    UNION { { ToString(r.id), r.head_branch, r.head_sha.first8 } : r \in RawRuns }

\* C13: every sample POSTed has its label keys in {status, workflow_file} and its
\* label values in the six statuses and the workflow file name, so no run id, sha
\* or branch is a label value; a count sample has no exemplar, and the exemplar of
\* a duration sample is the run id alone
C13_LabelsLowCardinality ==
    /\ Keys(last_push.labels) \subseteq { "status", "workflow_file" }
    /\ Values(last_push.labels) \subseteq Statuses \cup { "ci3.yml" }
    /\ Values(last_push.labels) \cap HighCardinality = {}
    /\ last_push.metric_name = "workflow_runs_count" => last_push.exemplar = << >>
    /\ last_push.metric_name = "workflow_runs_duration_seconds" =>
          /\ Keys(last_push.exemplar) = { "run_id" }
          /\ Values(last_push.exemplar) \subseteq { ToString(i) : i \in RunIds }

\* the poll loop has pushed the duration sample of a run after its count samples
C13_Witness ==
    /\ phase = "poll"
    /\ pc = "gen_for"
    /\ last_push.metric_name = "workflow_runs_duration_seconds"
    /\ last_push.exemplar = << <<"run_id", ToString(run.id)>> >>
(***************************************************************************)
(* Functions applied on their own: the process variables stay as they are  *)
(* before main runs.                                                       *)
(***************************************************************************)
Idle ==
    /\ argv = {}
    /\ backfill_count = 0
    /\ paging = "static"
    /\ upstream_runs = << >>
    /\ phase = "start"
    /\ exc = ""
    /\ gen = NoGen
    /\ run = NoRun
    /\ processed_runs = {}
    /\ status_idx = 0
    /\ now = 0
    /\ count = 0
    /\ iter = 0
    /\ last_push = NoSample
    /\ bf_log = << >>
    /\ poll_pushes = [i \in RunIds |-> 0]
    /\ delivered = {}
    /\ attempted = {}
    /\ count_push_failed = FALSE

process_vars == << argv, backfill_count, paging, upstream_runs, phase, exc, gen, run,
                   processed_runs, status_idx, now, count, iter, last_push, bf_log,
                   poll_pushes, delivered, attempted, count_push_failed >>

\* lines of an exposition text: a comment, an empty line, a line of white space,
\* a sample with labels, a sample without, a line whose "#" is not at its start
Lines ==
    { << "#", " HELP x Workflow runs metric: x" >>,
      << >>,
      << " ", " " >>,
      << "x{a=\"b\"}", " ", "1.5" >>,
      << "y", " ", "2.0" >>,
      << " ", "#", " indented" >> }

Texts == UNION { [1 .. n -> Lines] : n \in 0 .. MaxLines }

Exemplars ==
    { << >>, << <<"run_id", "7">> >>, << <<"run_id", "7">>, <<"span_id", "def456">> >> }

InitSer ==
    /\ Idle
    /\ pc = "serialize"
    /\ call \in [ lines : Texts, timestamp : { 0, 1000 }, exemplar : Exemplars ]
    /\ ret = << >>

\* the loop over the lines of push_metric_to_victoriametrics
Serialize ==
    /\ pc = "serialize"
    /\ ret' = Annotate(call.lines, call.timestamp, call.exemplar)
    /\ pc' = "returned"
    /\ UNCHANGED << process_vars, call >>

NextSer == Serialize

SpecSer == InitSer /\ [][NextSer]_vars

\* C14: the serialization keeps the number and the order of the lines; a line that
\* begins with "#" and a blank line are emitted unchanged, every other line L is
\* emitted as L, a space and the timestamp, followed, only when an exemplar is
\* given, by " # " and the comma-joined k="v" pairs of the exemplar
C14_Serialization ==
    pc = "returned" =>
        /\ Len(ret) = Len(call.lines)
        /\ \A k \in 1 .. Len(call.lines) :
              LET L == call.lines[k]
                  e == call.exemplar
                  pair(j) == << e[j][1], "=\"", e[j][2], "\"" >>
                  with_ts == L \o << " ", ToString(call.timestamp) >>
              IN  IF (L # << >> /\ L[1] = "#") \/ L \in { << >>, << " ", " " >> }
                  THEN ret[k] = L
                  ELSE IF Len(e) = 0 THEN ret[k] = with_ts
                  ELSE IF Len(e) = 1 THEN ret[k] = with_ts \o << " # " >> \o pair(1)
                  ELSE ret[k] = with_ts \o << " # " >> \o pair(1) \o << "," >> \o pair(2)

\* a comment line and a sample line have been serialized with an exemplar
C14_Witness ==
    /\ pc = "returned"
    /\ Len(call.lines) = 2
    /\ call.lines[1] = << "#", " HELP x Workflow runs metric: x" >>
    /\ ret[1] = call.lines[1]
    /\ call.lines[2] = << "x{a=\"b\"}", " ", "1.5" >>
    /\ call.timestamp = 1000
    /\ call.exemplar = << <<"run_id", "7">> >>
    /\ ret[2] = << "x{a=\"b\"}", " ", "1.5", " ", "1000", " # ", "run_id", "=\"", "7", "\"" >>
\* wall-clock readings in whole seconds: around a minute, and half hours and a
\* half minute apart
Walls == { 0, 1, 59, 60 } \cup { 1830 * k : k \in 1 .. MaxWall }

\* timestamps as the upstream may write them; the suffix "" is one that
\* fromisoformat rejects
Timestamps == { Iso(w, s) : w \in Walls, s \in { "Z", "+00:00", "+01:00", "" } }

InitParse ==
    /\ Idle
    /\ pc = "parse"
    /\ call \in { [ RawRun(1) EXCEPT !.created_at = c, !.updated_at = u ] :
                     c \in Timestamps, u \in Timestamps }
    /\ ret = << >>

\* parse_run_data(run) returns
Parse ==
    /\ pc = "parse"
    /\ ~ParseRaises(call)
    /\ ret' = parse_run_data(call)
    /\ pc' = "returned"
    /\ UNCHANGED << process_vars, call >>

\* parse_run_data(run) raises ValueError
ParseError ==
    /\ pc = "parse"
    /\ ParseRaises(call)
    /\ pc' = "raised"
    /\ UNCHANGED << process_vars, call, ret >>

NextParse == Parse \/ ParseError

SpecParse == InitParse /\ [][NextParse]_vars

\* the instant a valid timestamp denotes, in seconds: its wall-clock reading less
\* its offset, a trailing Z being UTC
Instant(s) == IF s.suffix = "+01:00" THEN s.wall - 3600 ELSE s.wall

ValidPair ==
    /\ call.created_at.suffix \in { "Z", "+00:00", "+01:00" }
    /\ call.updated_at.suffix \in { "Z", "+00:00", "+01:00" }
    /\ Instant(call.updated_at) >= Instant(call.created_at)

\* C15: for valid timestamps with updated_at >= created_at parse_run_data returns,
\* duration_seconds is updated_at minus created_at in seconds, duration_minutes is
\* duration_seconds / 60, and a trailing Z is read as UTC
C15_Durations ==
    /\ ValidPair => pc # "raised"
    /\ (ValidPair /\ pc = "returned") =>
          /\ ret.duration_seconds = Instant(call.updated_at) - Instant(call.created_at)
          /\ ret.duration_seconds >= 0
          /\ 60 * ret.duration_minutes.whole + ret.duration_minutes.sixtieths
                = ret.duration_seconds
          /\ ret.duration_minutes.sixtieths \in 0 .. 59
          /\ call.created_at.suffix = "Z" => ret.created_at = call.created_at.wall
          /\ call.updated_at.suffix = "Z" => ret.updated_at = call.updated_at.wall

\* a run created at 00:30:30Z and updated at 02:02:00+01:00 lasted 1890 s = 31.5 min
C15_Witness ==
    /\ pc = "returned"
    /\ call.created_at = Iso(1830, "Z")
    /\ call.updated_at = Iso(7320, "+01:00")
    /\ ret.duration_seconds = 1890
    /\ ret.duration_minutes = [ whole |-> 31, sixtieths |-> 30 ]
\* C16: a run id is in the ledger only after the poll loop has issued the push of
\* its duration sample
C16_MarkedAfterPush ==
    \A i \in RunIds : Str(i) \in processed_runs => poll_pushes[i] >= 1
\* C17: fetch_all_runs is lazy and pages in order: per_page is at most 100; the
\* n-th fetch asks for page n; a page after the first is fetched only when every
\* item of the page before has been handed to the consumer; while the consumer
\* holds an item of page k, or has stopped with it, no page beyond k has been
\* fetched
C17_LazyInOrder ==
    /\ [](gen.per_page <= GITHUB_MAX_PER_PAGE)
    /\ []((pc \in { "consume", "stopped" }) =>
             (gen.requests = gen.page /\ gen.i \in 1 .. Len(gen.runs)))
    /\ [][gen'.requests = gen.requests + 1 =>
             /\ gen.page = gen.requests + 1
             /\ gen.page > 1 => gen.i > Len(gen.runs)]_vars
    /\ [][pc = "stopped" => gen' = gen]_vars

\* called with 101, the generator fetched page 2 with per_page 100 after page 1
\* was handed over, and the consumer stopped on an item of page 2
C17_Witness ==
    /\ pc = "stopped"
    /\ gen.max_runs = AboveCap
    /\ gen.per_page = GITHUB_MAX_PER_PAGE
    /\ gen.page = 2
    /\ gen.requests = 2
    /\ gen.yielded >= 2

\* the generator is over: exhausted, ended by an exception, or left suspended
Terminated == pc \in { "done", "crashed", "stopped" }

\* C18: for every integer max_runs, against an upstream that returns an empty
\* page after at most MaxPages non-empty ones, fetch_all_runs terminates, having
\* yielded finitely many items and issued at most MaxPages + 1 fetches
C18_Terminates ==
    /\ <>Terminated
    /\ [](gen.requests <= MaxPages + 1)
    /\ [](gen.yielded <= MaxPages * MaxPageLen)

\* called with -1, the generator ended on the empty page after MaxPages non-empty
\* pages, none of whose items was yielded
C18_Witness ==
    /\ pc = "done"
    /\ gen.max_runs = -1
    /\ gen.requests = MaxPages + 1
    /\ gen.yielded = 0
\* the run ids the poll loop has issued a duration push for
PollPushed == { Str(i) : i \in { j \in RunIds : poll_pushes[j] >= 1 } }

\* C19: the ledger of the poll loop only grows; between two loop steps it is
\* exactly the set of run ids the loop has issued a duration push for; the push,
\* whatever its outcome, leaves the ledger as it is
C19_LedgerInvariant ==
    /\ [][processed_runs \subseteq processed_runs']_vars
    /\ [](pc # "poll_push" => processed_runs = PollPushed)
    /\ [][pc = "poll_push" => processed_runs' = processed_runs]_vars

\* the second iteration has ended with two runs in the ledger, one of which was
\* pushed in the first iteration and never delivered
C19_Witness ==
    /\ pc = "sleep"
    /\ iter = 1
    /\ exc = ""
    /\ Cardinality(processed_runs) >= 2
    /\ \E i \in RunIds : Str(i) \in processed_runs /\ Str(i) \notin delivered
(***************************************************************************)
(* The two fetch_all_runs side by side: the exporter's generator is        *)
(* drained into a list, against an upstream that serves consecutive        *)
(* per_page slices of one fixed list; the analyzer's fetch_all_runs is     *)
(* computed on the same list.                                              *)
(***************************************************************************)
\* the analyzer's while loop, from its condition on; the value is all_runs when
\* the loop is left
RECURSIVE AnalyzerLoop(_, _, _, _, _)
AnalyzerLoop(list, max_runs, per_page, page, all_runs) ==
    IF ~(Len(all_runs) < max_runs) THEN all_runs
    ELSE LET runs == Slice(list, per_page, page) IN
         IF runs = << >> THEN all_runs
         ELSE IF Len(runs) < per_page THEN all_runs \o runs
         ELSE AnalyzerLoop(list, max_runs, per_page, page + 1, all_runs \o runs)

\* the analyzer's fetch_all_runs(max_runs): all_runs[:max_runs]
AnalyzerFetchAllRuns(list, max_runs) ==
    LET all_runs == AnalyzerLoop(list, max_runs, Min(GITHUB_MAX_PER_PAGE, max_runs),
                                 1, << >>)
    IN  SubSeq(all_runs, 1, Min(max_runs, Len(all_runs)))

\* a list of m runs whose timestamps parse, newest first
Parsable(m) == [k \in 1 .. m |-> RawRun(4 * (m - k) + 1)]

\* the lists the upstream serves: the short ones of the process model, and lists
\* of parsable runs one short of a full page, a full page, one more, and more
\* than any max_runs asked for
FixedLists ==
    { Upstream(m) : m \in 0 .. MaxRunId }
    \cup { Parsable(m) : m \in 1 .. MaxRuns }
    \cup { Parsable(m) : m \in { GITHUB_MAX_PER_PAGE - 1, GITHUB_MAX_PER_PAGE,
                                  AboveCap, AboveCap + MaxRuns } }

InitEq ==
    /\ argv = {}
    /\ backfill_count = 0
    /\ paging = "static"
    /\ upstream_runs \in FixedLists
    /\ pc = "gen_while"
    /\ phase = "generator"
    /\ exc = ""
    /\ gen \in { GenInit(n) : n \in (0 .. MaxRuns) \cup { AboveCap } }
    /\ run = NoRun
    /\ processed_runs = {}
    /\ status_idx = 0
    /\ now = 0
    /\ count = 0
    /\ iter = 0
    /\ last_push = NoSample
    /\ bf_log = << >>
    /\ poll_pushes = [i \in RunIds |-> 0]
    /\ delivered = {}
    /\ attempted = {}
    /\ count_push_failed = FALSE
    /\ call = << >>
    /\ ret = << >>

\* the consumer appends the id of the yielded run to its list and asks for the
\* next one
Collect ==
    /\ pc = "consume"
    /\ ret' = Append(ret, run.id)
    /\ gen' = Resume(gen)
    /\ pc' = "gen_for"
    /\ UNCHANGED << argv, backfill_count, paging, upstream_runs, call, phase, exc,
                    run, poll_locals, iter, last_push, bf_log, delivered, poll_hist >>

NextEq ==
    \/ GenExhausted
    \/ GenFetch
    \/ GenNextPage
    \/ GenYield
    \/ GenParseError
    \/ Collect

SpecEq == InitEq /\ [][NextEq]_vars

Ids(runs) == [k \in 1 .. Len(runs) |-> runs[k].id]

AnalyzerIds == Ids(AnalyzerFetchAllRuns(upstream_runs, gen.max_runs))

\* C20 as claimed: when the exporter's generator is over, the ids it has produced
\* are those of the analyzer's fetch_all_runs on the same list and max_runs
C20_SameIds == pc \in { "done", "crashed" } => ret = AnalyzerIds

\* C20 amended: on a list whose records' timestamps all parse, the generator ends
\* exhausted and the ids it has produced are those of the analyzer's
\* fetch_all_runs, namely the first min(max_runs, length) ids of the list
C20_SameIdsParsable ==
    (\A k \in 1 .. Len(upstream_runs) : ~ParseRaises(upstream_runs[k])) =>
        /\ pc # "crashed"
        /\ pc = "done" =>
              /\ ret = AnalyzerIds
              /\ ret = Ids(SubSeq(upstream_runs, 1,
                                  Min(gen.max_runs, Len(upstream_runs))))

\* called with 101 on a list of 104 parsable runs, the generator has ended after
\* two pages with 101 ids
C20_Witness ==
    /\ pc = "done"
    /\ gen.max_runs = AboveCap
    /\ Len(upstream_runs) = AboveCap + MaxRuns
    /\ gen.requests = 2
    /\ Len(ret) = AboveCap
    /\ ret = AnalyzerIds
====
